---- MODULE Spec2Model ----
(***************************************************************************)
(* Model of the EMI calculator MCP server                                  *)
(* (src/src/mcpdeployment/emi_calculator.py).                              *)
(*                                                                         *)
(* The server reads BASE_URL once at import time, registers four tools and *)
(* relays every tool call to the backend through _post.  A tool call is    *)
(* modelled in two steps, split at the only point where the handler        *)
(* blocks: Call runs the handler up to requests.post (payload              *)
(* construction, URL construction, and the checks requests makes before    *)
(* anything reaches the network); Complete is the rest of _post, run when  *)
(* the backend answers or the request fails.                               *)
(*                                                                         *)
(* Representation.  A URL is a sequence of text segments, so that the      *)
(* f-string concatenation of _post is \o and a prefix can be looked at;    *)
(* the empty string is <<>>.  A Python dict is a function on the keys it   *)
(* holds: an absent key is absent from DOMAIN.  None is the string null.   *)
(* Decimal numbers are written in tenths (95 is 9.5); no operation of the  *)
(* program computes with them.                                             *)
(***************************************************************************)
EXTENDS Integers, Sequences, FiniteSets, TLC

VARIABLES
    running,    \* the server process exists (module imported, mcp.run() looping)
    environ,    \* os.environ's entry for EMI_API_BASE_URL after load_dotenv()
    BASE_URL,   \* the module-level BASE_URL
    prevBase,   \* history: BASE_URL of the previous run of the process
    pc,         \* per invocation: "idle", "waiting", "returned" or "raised"
    call,       \* per invocation: the tool called and its arguments
    request,    \* per invocation: the requests.post call made by _post
    attempts,   \* per invocation: how many times requests.post was called
    reply,      \* per invocation: what requests.post produced
    result,     \* per invocation: the value the tool returned
    raised      \* per invocation: the exception the tool propagated

vars == <<running, environ, BASE_URL, prevBase, pc, call, request, attempts,
          reply, result, raised>>

---------------------------------------------------------------------------
(* Bounds *)

NInv == 2
MaxScenarios == 2

Invocations == 1..NInv

---------------------------------------------------------------------------
(* Configuration: load_dotenv() and os.getenv *)

null == "null"

Unset == [set |-> FALSE, value |-> <<>>]
SetTo(v) == [set |-> TRUE, value |-> v]

DefaultBaseUrl == <<"http://localhost:8000", "/api">>
CustomBaseUrl == <<"https://emi.example.com", "/v2">>
DotenvBaseUrl == <<"http://backend:9000", "/api">>

\* What the launching shell may hold for EMI_API_BASE_URL.
ShellValues == {Unset, SetTo(<<>>), SetTo(CustomBaseUrl)}
\* What a .env file may hold for EMI_API_BASE_URL.
DotenvValues == {Unset, SetTo(DotenvBaseUrl)}

\* load_dotenv() with override=False: a key of the file is copied into
\* os.environ only when os.environ does not hold it already.
LoadDotenv(shell, file) == IF shell.set THEN shell ELSE file

GetenvEmptyIsUnset(env, default) ==
    IF env.set /\ env.value # <<>> THEN env.value ELSE default

\* os.getenv(key, default): the default is used only when the key is absent.
Getenv(env, default) == IF env.set THEN env.value ELSE default

---------------------------------------------------------------------------
(* Tool arguments *)

Arg(args, key, default) == IF key \in DOMAIN args THEN args[key] ELSE default

Get(d, key, default) == IF key \in DOMAIN d THEN d[key] ELSE default

EmiArgs ==
    { [principal |-> 100000, interestRate |-> 95, tenure |-> 12],
      [principal |-> -5, interestRate |-> 0, tenure |-> 240,
       calculation_method |-> "flat"] }

PrepaymentArgs ==
    { [principal |-> 100000, interestRate |-> 95, tenure |-> 12,
       prepayment_amount |-> 5000, prepayment_frequency |-> "monthly",
       prepayment_start_month |-> 3],
      [principal |-> -5, interestRate |-> 0, tenure |-> 240,
       prepayment_amount |-> 0, prepayment_frequency |-> "quarterly",
       prepayment_start_month |-> 1, calculation_method |-> "flat"] }

Bare == [principal |-> 100000, interestRate |-> 95, tenure |-> 12]
Named == [name |-> "home", principal |-> 250000, interestRate |-> 80,
          tenure |-> 24, calculation_method |-> "flat"]
Camel == [name |-> "car", principal |-> 40000, interestRate |-> 110,
          tenure |-> 36, calculationMethod |-> "flat"]
NoPrincipal == [name |-> "x", interestRate |-> 95, tenure |-> 12]
NoRate == [principal |-> 100000, tenure |-> 12]
NoTenure == [principal |-> 100000, interestRate |-> 95,
             calculation_method |-> "flat"]

ScenarioPool == {Bare, Named, Camel, NoPrincipal, NoRate, NoTenure}

ScenarioLists == UNION { [1..n -> ScenarioPool] : n \in 0..MaxScenarios }

CompareArgs ==
    { [scenarios |-> l] : l \in ScenarioLists }
    \cup { [scenarios |-> l, calculation_method |-> "flat_rate"] :
             l \in ScenarioLists }

AllCalls ==
    { [tool |-> "calculate_emi", args |-> a] : a \in EmiArgs }
    \cup { [tool |-> "calculate_schedule", args |-> a] : a \in EmiArgs }
    \cup { [tool |-> "compare_loans", args |-> a] : a \in CompareArgs }
    \cup { [tool |-> "calculate_with_prepayment", args |-> a] :
             a \in PrepaymentArgs }

ConcCalls ==
    { [tool |-> "calculate_emi",
       args |-> [principal |-> 100000, interestRate |-> 95, tenure |-> 12]],
      [tool |-> "calculate_schedule",
       args |-> [principal |-> -5, interestRate |-> 0, tenure |-> 240,
                 calculation_method |-> "flat"]],
      [tool |-> "compare_loans", args |-> [scenarios |-> <<Bare>>]],
      [tool |-> "compare_loans", args |-> [scenarios |-> <<NoPrincipal>>]] }

---------------------------------------------------------------------------
(* Payload construction: the four tool handlers up to their call of _post *)

CalculateEmiPayloadClamped(args) ==
    [principal |-> IF args.principal < 0 THEN 0 ELSE args.principal,
     annual_rate |-> args.interestRate,
     tenure_months |-> args.tenure,
     calculation_method |-> Arg(args, "calculation_method", "reducing")]

\* calculate_emi, lines 70-75.
CalculateEmiPayload(args) ==
    [principal |-> args.principal,
     annual_rate |-> args.interestRate,
     tenure_months |-> args.tenure,
     calculation_method |-> Arg(args, "calculation_method", "reducing")]

\* calculate_schedule, lines 102-107.
CalculateSchedulePayload(args) ==
    [principal |-> args.principal,
     annual_rate |-> args.interestRate,
     tenure_months |-> args.tenure,
     calculation_method |-> Arg(args, "calculation_method", "reducing")]

\* calculate_with_prepayment, lines 180-188.
PrepaymentPayload(args) ==
    [principal |-> args.principal,
     annual_rate |-> args.interestRate,
     tenure_months |-> args.tenure,
     prepayment_amount |-> args.prepayment_amount,
     prepayment_frequency |-> args.prepayment_frequency,
     prepayment_start_month |-> args.prepayment_start_month,
     calculation_method |-> Arg(args, "calculation_method", "reducing")]

\* The subscripts of lines 139-141, in the order Python evaluates them: the
\* key of the first one that raises KeyError, or null when none does.
MissingKey(scenario) ==
    IF "principal" \notin DOMAIN scenario THEN "principal"
    ELSE IF "interestRate" \notin DOMAIN scenario THEN "interestRate"
    ELSE IF "tenure" \notin DOMAIN scenario THEN "tenure"
    ELSE null

FormatScenarioDefaultOnly(scenario, calculation_method) ==
    [name |-> Get(scenario, "name", null),
     principal |-> scenario.principal,
     annual_rate |-> scenario.interestRate,
     tenure_months |-> scenario.tenure,
     calculation_method |-> calculation_method]

\* The dict appended for one scenario, lines 137-146.
FormatScenario(scenario, calculation_method) ==
    [name |-> Get(scenario, "name", null),
     principal |-> scenario.principal,
     annual_rate |-> scenario.interestRate,
     tenure_months |-> scenario.tenure,
     calculation_method |->
         Get(scenario, "calculation_method", calculation_method)]

RECURSIVE FormatFromSkipping(_, _, _, _)
FormatFromSkipping(scenarios, k, acc, calculation_method) ==
    IF k > Len(scenarios)
    THEN [ok |-> TRUE, value |-> acc, key |-> null]
    ELSE IF MissingKey(scenarios[k]) # null
    THEN FormatFromSkipping(scenarios, k + 1, acc, calculation_method)
    ELSE FormatFromSkipping(scenarios, k + 1,
                    Append(acc, FormatScenario(scenarios[k], calculation_method)),
                    calculation_method)

\* The loop of lines 135-147 from scenario k on, formatted_scenarios being
\* acc: it ends with the whole list formatted, or at the first KeyError.
RECURSIVE FormatFrom(_, _, _, _)
FormatFrom(scenarios, k, acc, calculation_method) ==
    IF k > Len(scenarios)
    THEN [ok |-> TRUE, value |-> acc, key |-> null]
    ELSE IF MissingKey(scenarios[k]) # null
    THEN [ok |-> FALSE, value |-> acc, key |-> MissingKey(scenarios[k])]
    ELSE FormatFrom(scenarios, k + 1,
                    Append(acc, FormatScenario(scenarios[k], calculation_method)),
                    calculation_method)

FormatScenarios(scenarios, calculation_method) ==
    FormatFrom(scenarios, 1, <<>>, calculation_method)

\* compare_loans, lines 132-148.
CompareLoansPayload(args) ==
    LET f == FormatScenarios(args.scenarios,
                             Arg(args, "calculation_method", "reducing"))
    IN  [ok |-> f.ok, payload |-> [scenarios |-> f.value], key |-> f.key]

\* The route each tool hands to _post.
Route(tool) ==
    CASE tool = "calculate_emi" -> <<"/calculate-emi">>
      [] tool = "calculate_schedule" -> <<"/amortization-schedule">>
      [] tool = "compare_loans" -> <<"/compare-loans">>
      [] tool = "calculate_with_prepayment" -> <<"/calculate-with-prepayment">>

\* A handler up to its call of _post: the payload, or the KeyError raised.
Build(c) ==
    CASE c.tool = "calculate_emi" ->
            [ok |-> TRUE, payload |-> CalculateEmiPayload(c.args), key |-> null]
      [] c.tool = "calculate_schedule" ->
            [ok |-> TRUE, payload |-> CalculateSchedulePayload(c.args),
             key |-> null]
      [] c.tool = "compare_loans" -> CompareLoansPayload(c.args)
      [] c.tool = "calculate_with_prepayment" ->
            [ok |-> TRUE, payload |-> PrepaymentPayload(c.args), key |-> null]

---------------------------------------------------------------------------
(* The HTTP layer: requests.post, raise_for_status, response.json *)

NoRequest == [posted |-> FALSE]
NoReply == [kind |-> "none"]
NoResult == [none |-> TRUE]
NoError == [type |-> "none"]

Timeout == 10

RECURSIVE Render(_)
Render(url) == IF url = <<>> THEN "" ELSE Head(url) \o Render(Tail(url))

\* requests refuses, before it opens a connection, a URL with no scheme.
HasScheme(url) ==
    /\ Len(url) > 0
    /\ url[1] \in {DefaultBaseUrl[1], CustomBaseUrl[1], DotenvBaseUrl[1]}

Response(status, text) == [kind |-> "response", status |-> status, text |-> text]
Exception(type, msg) == [kind |-> "exception", type |-> type, msg |-> msg]

MissingSchema(url) ==
    Exception("MissingSchema",
              "Invalid URL '" \o Render(url) \o "': No scheme supplied.")

EmiText == "{\"emi\": 8792.5}"
DetailText == "{\"detail\": \"Not Found\"}"
ScheduleText == "{\"emi\": 8792.5, \"total_interest\": 5510.0}"
HtmlText == "<html>Bad Gateway</html>"

\* What a call of requests.post that reached the network can produce.
AllReplies ==
    { Response(200, EmiText), Response(201, ScheduleText),
      Response(200, HtmlText), Response(300, EmiText),
      Response(404, DetailText), Response(500, HtmlText),
      Exception("ReadTimeout", "Read timed out. (read timeout=10)"),
      Exception("ConnectionError", "Max retries exceeded: Connection refused") }

ConcReplies ==
    { Response(200, EmiText), Response(500, HtmlText),
      Exception("ReadTimeout", "Read timed out. (read timeout=10)") }

RaiseForStatus5xxOnly(status) == 500 <= status /\ status < 600

\* Response.raise_for_status raises HTTPError for a 4xx or 5xx status only.
RaiseForStatus(status) == 400 <= status /\ status < 600

\* The message of the HTTPError that raise_for_status raises.
HTTPErrorMessage(status, url) ==
    (CASE status = 404 -> "404 Client Error: Not Found"
       [] status = 500 -> "500 Server Error: Internal Server Error"
       [] OTHER -> "Error")
    \o " for url: " \o Render(url)

\* Response.json(): the parsed body, or JSONDecodeError (a RequestException
\* since requests 2.27) when the body is not JSON.
JsonOf(text) ==
    CASE text = EmiText -> [ok |-> TRUE, value |-> [emi |-> "8792.5"]]
      [] text = DetailText -> [ok |-> TRUE, value |-> [detail |-> "Not Found"]]
      [] text = ScheduleText ->
            [ok |-> TRUE,
             value |-> [emi |-> "8792.5", total_interest |-> "5510.0"]]
      [] OTHER -> [ok |-> FALSE, value |-> NoResult]

ErrorResultNoPayload(details, payload) ==
    [error |-> "backend_error", details |-> details]

\* Line 45: the dictionary returned from the except clause.
ErrorResult(details, payload) ==
    [error |-> "backend_error", details |-> details, payload |-> payload]

PostOutcomeWrapped(rep, payload, url) ==
    IF rep.kind = "exception" THEN ErrorResult(rep.msg, payload)
    ELSE IF RaiseForStatus(rep.status)
    THEN ErrorResult(HTTPErrorMessage(rep.status, url), payload)
    ELSE IF JsonOf(rep.text).ok
    THEN [status |-> "ok", data |-> JsonOf(rep.text).value]
    ELSE ErrorResult("Expecting value: line 1 column 1 (char 0)", payload)

\* Lines 39-45: what _post returns, given what requests.post produced.
PostOutcome(rep, payload, url) ==
    IF rep.kind = "exception" THEN ErrorResult(rep.msg, payload)
    ELSE IF RaiseForStatus(rep.status)
    THEN ErrorResult(HTTPErrorMessage(rep.status, url), payload)
    ELSE IF JsonOf(rep.text).ok THEN JsonOf(rep.text).value
    ELSE ErrorResult("Expecting value: line 1 column 1 (char 0)", payload)

UrlStale(path) == (IF prevBase.set THEN prevBase.value ELSE BASE_URL) \o path

\* Line 37: url = f"{BASE_URL}{path}".
Url(path) == BASE_URL \o path

SentPayloadShared(i) ==
    IF \E j \in Invocations : j # i /\ pc[j] = "waiting"
    THEN request[CHOOSE j \in Invocations : j # i /\ pc[j] = "waiting"].payload
    ELSE request[i].payload

\* The parameter payload of the frame of _post that invocation i runs.
SentPayload(i) == request[i].payload

---------------------------------------------------------------------------
(* The process *)

NotLoaded == <<"<not loaded>">>

Init ==
    /\ running = FALSE
    /\ environ = Unset
    /\ BASE_URL = NotLoaded
    /\ prevBase = Unset
    /\ pc = [i \in Invocations |-> "idle"]
    /\ call = [i \in Invocations |-> [tool |-> "none"]]
    /\ request = [i \in Invocations |-> NoRequest]
    /\ attempts = [i \in Invocations |-> 0]
    /\ reply = [i \in Invocations |-> NoReply]
    /\ result = [i \in Invocations |-> NoResult]
    /\ raised = [i \in Invocations |-> NoError]

\* Lines 18-23: the module is imported in a process launched with shell as
\* its environment and file as its .env file.
Start(shell, file) ==
    /\ ~running
    /\ running' = TRUE
    /\ environ' = LoadDotenv(shell, file)
    /\ BASE_URL' = Getenv(environ', DefaultBaseUrl)
    /\ UNCHANGED <<prevBase, pc, call, request, attempts, reply, result, raised>>

\* The process is terminated from outside; its invocations die with it.
Stop ==
    /\ running
    /\ running' = FALSE
    /\ environ' = Unset
    /\ prevBase' = SetTo(BASE_URL)
    /\ BASE_URL' = NotLoaded
    /\ pc' = [i \in Invocations |-> "idle"]
    /\ call' = [i \in Invocations |-> [tool |-> "none"]]
    /\ request' = [i \in Invocations |-> NoRequest]
    /\ attempts' = [i \in Invocations |-> 0]
    /\ reply' = [i \in Invocations |-> NoReply]
    /\ result' = [i \in Invocations |-> NoResult]
    /\ raised' = [i \in Invocations |-> NoError]

\* A tool handler runs for call c, from its first line to the moment
\* requests.post waits for the backend, or to its end when it does not wait.
Handler(i, c) ==
    LET b == Build(c)
        url == Url(Route(c.tool))
    IN  /\ call' = [call EXCEPT ![i] = c]
        /\ IF ~b.ok
           THEN /\ pc' = [pc EXCEPT ![i] = "raised"]
                /\ raised' = [raised EXCEPT ![i] =
                                 [type |-> "KeyError", key |-> b.key]]
                /\ request' = [request EXCEPT ![i] = NoRequest]
                /\ attempts' = [attempts EXCEPT ![i] = 0]
                /\ reply' = [reply EXCEPT ![i] = NoReply]
                /\ result' = [result EXCEPT ![i] = NoResult]
           ELSE /\ raised' = [raised EXCEPT ![i] = NoError]
                /\ request' = [request EXCEPT ![i] =
                                  [posted |-> TRUE, url |-> url,
                                   payload |-> b.payload, timeout |-> Timeout]]
                /\ attempts' = [attempts EXCEPT ![i] = 1]
                /\ IF HasScheme(url)
                   THEN /\ pc' = [pc EXCEPT ![i] = "waiting"]
                        /\ reply' = [reply EXCEPT ![i] = NoReply]
                        /\ result' = [result EXCEPT ![i] = NoResult]
                   ELSE /\ pc' = [pc EXCEPT ![i] = "returned"]
                        /\ reply' = [reply EXCEPT ![i] = MissingSchema(url)]
                        /\ result' = [result EXCEPT ![i] =
                              PostOutcome(MissingSchema(url), b.payload, url)]

Call(i, c) ==
    /\ running
    /\ pc[i] # "waiting"
    /\ Handler(i, c)
    /\ UNCHANGED <<running, environ, BASE_URL, prevBase>>

IsFailure(rep) ==
    \/ rep.kind = "exception"
    \/ rep.kind = "response" /\ RaiseForStatus(rep.status)

PostReturnRetry(i, rep) ==
    IF IsFailure(rep)
    THEN /\ attempts' = [attempts EXCEPT ![i] = 3 - attempts[i]]
         /\ UNCHANGED <<pc, reply, result>>
    ELSE /\ pc' = [pc EXCEPT ![i] = "returned"]
         /\ reply' = [reply EXCEPT ![i] = rep]
         /\ result' = [result EXCEPT ![i] =
                          PostOutcome(rep, SentPayload(i), request[i].url)]
         /\ UNCHANGED attempts

\* Lines 40-45 once requests.post has come back with rep: _post returns, and
\* the handler returns what _post returned.
PostReturn(i, rep) ==
    /\ pc' = [pc EXCEPT ![i] = "returned"]
    /\ reply' = [reply EXCEPT ![i] = rep]
    /\ result' = [result EXCEPT ![i] =
                     PostOutcome(rep, SentPayload(i), request[i].url)]
    /\ UNCHANGED attempts

Complete(i, rep) ==
    /\ running
    /\ pc[i] = "waiting"
    /\ PostReturn(i, rep)
    /\ UNCHANGED <<running, environ, BASE_URL, prevBase, call, request, raised>>

Launch == \E shell \in ShellValues, file \in DotenvValues : Start(shell, file)

\* Tool calls dispatched one at a time, as mcp.run() does for synchronous
\* tool functions.
Dispatch == \E c \in AllCalls : Call(1, c)
Answer == \E rep \in AllReplies : Complete(1, rep)

Next == Launch \/ Stop \/ Dispatch \/ Answer

Spec == Init /\ [][Next]_vars

\* Tool calls dispatched concurrently, one thread or task per call.
ConcDispatch == \E i \in Invocations, c \in ConcCalls : Call(i, c)
ConcAnswer == \E i \in Invocations, rep \in ConcReplies : Complete(i, rep)

ConcNext == Launch \/ Stop \/ ConcDispatch \/ ConcAnswer

ConcSpec == Init /\ [][ConcNext]_vars

\* requests.post is called with timeout=10: every call of it comes back, with
\* a response or with an exception, so no invocation waits forever.
LiveSpec ==
    ConcSpec /\ \A i \in Invocations :
                   WF_vars(\E rep \in ConcReplies : Complete(i, rep))

---------------------------------------------------------------------------
(* Properties *)

Required == {"principal", "interestRate", "tenure"}

WellFormed(scenarios) ==
    \A k \in DOMAIN scenarios : Required \subseteq DOMAIN scenarios[k]

\* The backend_error object built around invocation i's own request.
IsBackendError(i) ==
    /\ DOMAIN result[i] = {"error", "details", "payload"}
    /\ result[i].error = "backend_error"
    /\ result[i].details # ""
    /\ result[i].payload = request[i].payload
    /\ raised[i] = NoError

RequestException(rep) == rep.kind = "exception"

\* C1 as stated: whenever the request of a tool failed -- an exception of
\* requests, or a response whose status is not 2xx -- the tool has returned
\* the backend_error object with non-empty details and the payload it sent.
C1_AnyNon2xxIsBackendError ==
    \A i \in Invocations :
        (/\ pc[i] = "returned"
         /\ \/ RequestException(reply[i])
            \/ /\ reply[i].kind = "response"
               /\ ~(200 <= reply[i].status /\ reply[i].status < 300))
        => IsBackendError(i)

\* C1 amended: whenever the request of a tool failed with an exception of
\* requests or with a 4xx or 5xx status, the tool has returned, without
\* raising, exactly {error: backend_error, details: d, payload: P} with d
\* non-empty and P the payload it sent.
C1_FailureIsBackendError ==
    \A i \in Invocations :
        (/\ pc[i] = "returned"
         /\ \/ RequestException(reply[i])
            \/ /\ reply[i].kind = "response"
               /\ 400 <= reply[i].status /\ reply[i].status < 600)
        => IsBackendError(i)

C1_Witness ==
    \E i \in Invocations :
        /\ pc[i] = "returned"
        /\ call[i].tool = "compare_loans"
        /\ reply[i] = Response(500, HtmlText)
        /\ result[i].error = "backend_error"
        /\ result[i].payload = [scenarios |-> <<FormatScenario(Named, "reducing")>>]

\* C2: whenever the backend answered a tool's request with a 2xx status and a
\* JSON body, the tool has returned exactly that body.
C2_SuccessBodyUnchanged ==
    \A i \in Invocations :
        (/\ pc[i] = "returned"
         /\ reply[i].kind = "response"
         /\ 200 <= reply[i].status /\ reply[i].status < 300
         /\ JsonOf(reply[i].text).ok)
        => /\ result[i] = JsonOf(reply[i].text).value
           /\ raised[i] = NoError
           /\ (reply[i].text = EmiText => result[i] = [emi |-> "8792.5"])

C2_Witness ==
    \E i \in Invocations :
        /\ pc[i] = "returned"
        /\ call[i].tool = "calculate_emi"
        /\ reply[i] = Response(200, EmiText)
        /\ result[i] = [emi |-> "8792.5"]

\* C3: a compare_loans call one of whose scenarios, at any position, lacks
\* principal, interestRate or tenure has raised KeyError for a required key
\* and has made no request: it is never waiting and never returned.
C3_MalformedScenarioNeverPosts ==
    \A i \in Invocations :
        (call[i].tool = "compare_loans" /\ ~WellFormed(call[i].args.scenarios))
        => /\ pc[i] = "raised"
           /\ raised[i].type = "KeyError"
           /\ raised[i].key \in Required
           /\ attempts[i] = 0
           /\ request[i] = NoRequest
           /\ result[i] = NoResult

C3_Witness ==
    \E i \in Invocations :
        /\ call[i].tool = "compare_loans"
        /\ call[i].args.scenarios = <<Bare, NoTenure>>
        /\ pc[i] = "raised"
        /\ raised[i] = [type |-> "KeyError", key |-> "tenure"]
        /\ attempts[i] = 0

MethodOf(args) ==
    IF "calculation_method" \in DOMAIN args
    THEN args.calculation_method ELSE "reducing"

\* C4: the payload sent by calculate_emi, calculate_schedule and
\* calculate_with_prepayment is the renaming table applied to the arguments:
\* annual_rate is interestRate, tenure_months is tenure, calculation_method
\* is "reducing" unless supplied, everything else is passed through, and the
\* call is never refused locally.
C4_PayloadIsRenamingTable ==
    \A i \in Invocations :
        LET a == call[i].args
            p == request[i].payload
        IN  /\ call[i].tool \in {"calculate_emi", "calculate_schedule"} =>
                /\ request[i].posted
                /\ raised[i] = NoError
                /\ DOMAIN p = {"principal", "annual_rate", "tenure_months",
                               "calculation_method"}
                /\ p.principal = a.principal
                /\ p.annual_rate = a.interestRate
                /\ p.tenure_months = a.tenure
                /\ p.calculation_method = MethodOf(a)
            /\ call[i].tool = "calculate_with_prepayment" =>
                /\ request[i].posted
                /\ raised[i] = NoError
                /\ DOMAIN p = {"principal", "annual_rate", "tenure_months",
                               "calculation_method", "prepayment_amount",
                               "prepayment_frequency", "prepayment_start_month"}
                /\ p.principal = a.principal
                /\ p.annual_rate = a.interestRate
                /\ p.tenure_months = a.tenure
                /\ p.calculation_method = MethodOf(a)
                /\ p.prepayment_amount = a.prepayment_amount
                /\ p.prepayment_frequency = a.prepayment_frequency
                /\ p.prepayment_start_month = a.prepayment_start_month

C4_Witness ==
    \E i \in Invocations :
        /\ call[i].tool = "calculate_with_prepayment"
        /\ "calculation_method" \notin DOMAIN call[i].args
        /\ pc[i] = "waiting"
        /\ request[i].payload.calculation_method = "reducing"
        /\ request[i].payload.annual_rate = 95

Expected(scenario, key, default) ==
    [name |-> IF "name" \in DOMAIN scenario THEN scenario.name ELSE null,
     principal |-> scenario.principal,
     annual_rate |-> scenario.interestRate,
     tenure_months |-> scenario.tenure,
     calculation_method |->
         IF key \in DOMAIN scenario THEN scenario[key] ELSE default]

ComparePayloadReads(key) ==
    \A i \in Invocations :
        (call[i].tool = "compare_loans" /\ WellFormed(call[i].args.scenarios))
        => LET in == call[i].args.scenarios
               out == request[i].payload.scenarios
           IN  /\ request[i].posted
               /\ DOMAIN request[i].payload = {"scenarios"}
               /\ Len(out) = Len(in)
               /\ \A k \in DOMAIN in :
                      out[k] = Expected(in[k], key, MethodOf(call[i].args))

\* C5 as stated: compare_loans sends {scenarios: L}, L having the length and
\* order of the input, its k-th element built from the k-th scenario with
\* the scenario's calculationMethod when it has one and the tool-level
\* default otherwise.
C5_ReadsCalculationMethodCamel == ComparePayloadReads("calculationMethod")

\* C5 amended: the same, the per-scenario override being read from the
\* scenario's key calculation_method.
C5_ReadsCalculationMethodSnake == ComparePayloadReads("calculation_method")

C5_Witness ==
    \E i \in Invocations :
        /\ call[i].tool = "compare_loans"
        /\ call[i].args = [scenarios |-> <<Bare>>]
        /\ request[i].posted
        /\ request[i].payload =
              [scenarios |-> << [name |-> null, principal |-> 100000,
                                 annual_rate |-> 95, tenure_months |-> 12,
                                 calculation_method |-> "reducing"] >>]

C7_EmptyFallsBackToDefault ==
    running =>
        BASE_URL = IF environ.set /\ environ.value # <<>>
                   THEN environ.value
                   ELSE <<"http://localhost:8000", "/api">>

\* C7 amended: BASE_URL is the value of EMI_API_BASE_URL whenever that is
\* set, the empty string included, and http://localhost:8000/api only when
\* it is unset.
C7_OnlyUnsetFallsBackToDefault ==
    running =>
        BASE_URL = IF environ.set
                   THEN environ.value
                   ELSE <<"http://localhost:8000", "/api">>

C7_Witness ==
    /\ running
    /\ environ.set
    /\ environ.value = <<>>
    /\ BASE_URL = <<>>

Local(i) ==
    <<pc[i], call[i], request[i], attempts[i], reply[i], result[i], raised[i]>>

OwnData(i) ==
    /\ request[i].posted =>
          /\ Build(call[i]).ok
          /\ request[i].payload = Build(call[i]).payload
    /\ pc[i] = "returned" =>
          /\ result[i] = PostOutcome(reply[i], Build(call[i]).payload,
                                     request[i].url)
          /\ IsFailure(reply[i]) => result[i].payload = Build(call[i]).payload

\* C8: under concurrent dispatch, the payload an invocation sent and the
\* result it returned (the payload echoed in a backend_error included) are
\* functions of its own call and of the reply to its own request; a step
\* changes the data of at most one invocation, and no step of a running
\* server changes BASE_URL.
C8_InvocationsIndependent ==
    /\ [](\A i \in Invocations : OwnData(i))
    /\ [][(running /\ running') =>
            /\ BASE_URL' = BASE_URL
            /\ \A i, j \in Invocations :
                  i # j => (Local(i)' = Local(i) \/ Local(j)' = Local(j))]_vars

C8_Witness ==
    \E i, j \in Invocations :
        /\ i # j
        /\ pc[i] = "returned"
        /\ pc[j] = "waiting"
        /\ reply[i] = Response(500, HtmlText)
        /\ request[i].payload # request[j].payload
        /\ result[i].payload = request[i].payload

RouteTable(tool) ==
    CASE tool = "calculate_emi" -> "/calculate-emi"
      [] tool = "calculate_schedule" -> "/amortization-schedule"
      [] tool = "compare_loans" -> "/compare-loans"
      [] tool = "calculate_with_prepayment" -> "/calculate-with-prepayment"

\* C9: every request a running server has made went to the base URL read at
\* the start of that process followed by the fixed route of the tool called;
\* no step of a running server changes the base URL, and after a restart
\* every request carries the newly read base URL.
C9_UrlIsBasePlusRoute ==
    /\ [](\A i \in Invocations :
            request[i].posted =>
                /\ running
                /\ request[i].url = BASE_URL \o <<RouteTable(call[i].tool)>>
                /\ BASE_URL = IF environ.set THEN environ.value
                              ELSE DefaultBaseUrl)
    /\ [][(running /\ running') =>
            (BASE_URL' = BASE_URL /\ environ' = environ)]_vars

C9_Witness ==
    \E i \in Invocations :
        /\ prevBase.set
        /\ prevBase.value = DefaultBaseUrl
        /\ BASE_URL = CustomBaseUrl
        /\ call[i].tool = "calculate_schedule"
        /\ request[i].posted
        /\ request[i].url =
              <<"https://emi.example.com", "/v2", "/amortization-schedule">>

FullSuccess(i) ==
    /\ reply[i].kind = "response"
    /\ JsonOf(reply[i].text).ok
    /\ result[i] = JsonOf(reply[i].text).value

OneOutcome(i) ==
    /\ pc[i] = "returned" =>
          /\ raised[i] = NoError
          /\ result[i] # NoResult
          /\ FullSuccess(i) # IsBackendError(i)
    /\ pc[i] = "raised" =>
          /\ raised[i].type = "KeyError"
          /\ result[i] = NoResult
          /\ ~request[i].posted
          /\ call[i].tool = "compare_loans"
    /\ pc[i] \in {"idle", "waiting"} =>
          /\ raised[i] = NoError
          /\ result[i] = NoResult

\* C10: an invocation that is over has exactly one outcome -- the backend's
\* body, or a backend_error value, or a propagated KeyError of compare_loans
\* -- and an invocation that waits for the backend is eventually over, as
\* long as the process is not terminated.
C10_CompletesWithOneOutcome ==
    /\ [](\A i \in Invocations : OneOutcome(i))
    /\ \A i \in Invocations :
          (pc[i] = "waiting") ~> (pc[i] = "returned" \/ ~running)

C10_Witness ==
    \E i \in Invocations :
        /\ pc[i] = "returned"
        /\ reply[i].kind = "exception"
        /\ reply[i].type = "ReadTimeout"
        /\ IsBackendError(i)
        /\ running

====
